---------------------------- MODULE Spec2Model ----------------------------
(***************************************************************************)
(* A model of KNearestNeighbors.py: MyKNeighborsClassifier and             *)
(* MyKNeighborsRegressor (brute-force k-nearest-neighbours prediction).    *)
(*                                                                         *)
(* Numbers.  Feature values and targets are integers.  A distance is the   *)
(* square root of a sum of squares; the feature vectors are drawn from a   *)
(* set of points whose pairwise distances are all integers, so the root    *)
(* is exact.  A quotient is an exact rational <<"fin", n, d>> in lowest    *)
(* terms (the rounding of a binary float is not modelled).  A division by  *)
(* zero depends on the type of its operands: Python numbers raise          *)
(* ZeroDivisionError, numpy scalars give inf, -inf or nan and go on.       *)
(* `numeric` says which of the two the caller's feature values are.        *)
(***************************************************************************)
EXTENDS Integers, Sequences, FiniteSets

\* ------------------------------------------------------------------ bounds
\* rows of a training set drawn for one predict_single_datapoint call
MaxN == 3
\* largest k given to the constructor
MaxK == 3
\* rows of a training set drawn for one predict or minmax_normalize call
MaxRows == 2
\* rows of the arrays a caller keeps and writes to during an object's life
MaxCallerRows == 2
\* rows of a query matrix given to predict
MaxQ == 1

\* A rhombus' three corners and its centre: every pairwise distance is an
\* integer (5, 5, 6 between the corners; 4, 3, 3 from the centre).
TrainPoints == {<<0, 0>>, <<3, 4>>, <<-3, 4>>}
QueryPoints == TrainPoints \cup {<<0, 4>>}
Targets == {1, 2}

None == "None"
ObjX == {"X1", "X2"}
ObjY == {"y1", "y2"}

\* ------------------------------------------------------------ arithmetic
Abs(i) == IF i < 0 THEN -i ELSE i

RECURSIVE Gcd(_, _)
Gcd(a, b) == IF b = 0 THEN a ELSE Gcd(b, a % b)

\* a float with the value n/d (d # 0), in lowest terms with d > 0
Fin(n, d) ==
    LET g == Gcd(Abs(n), Abs(d))
        s == IF d < 0 THEN -1 ELSE 1
    IN  <<"fin", (s * n) \div g, (s * d) \div g>>

Inf == <<"inf", 0, 1>>
NegInf == <<"ninf", 0, 1>>
NaN == <<"nan", 0, 1>>
IsFin(a) == a[1] = "fin"
IsZero(a) == IsFin(a) /\ a[2] = 0
Sign(a) ==
    CASE a[1] = "inf" -> 1
      [] a[1] = "ninf" -> -1
      [] a[1] = "fin" -> (IF a[2] > 0 THEN 1 ELSE IF a[2] < 0 THEN -1 ELSE 0)
      [] OTHER -> 0

\* a + b on floats (IEEE 754: nan is absorbing, inf + -inf is nan)
FAdd(a, b) ==
    CASE a[1] = "nan" \/ b[1] = "nan" -> NaN
      [] IsFin(a) /\ IsFin(b) -> Fin(a[2] * b[3] + b[2] * a[3], a[3] * b[3])
      [] IsFin(a) -> b
      [] IsFin(b) -> a
      [] a[1] = b[1] -> a
      [] OTHER -> NaN

\* a / b on numpy scalars: a zero divisor gives inf, -inf or nan (and a
\* RuntimeWarning), never an exception
NpDiv(a, b) ==
    CASE a[1] = "nan" \/ b[1] = "nan" -> NaN
      [] IsFin(a) /\ IsFin(b) /\ b[2] # 0 -> Fin(a[2] * b[3], a[3] * b[2])
      [] IsFin(b) /\ b[2] = 0 ->
            (IF Sign(a) > 0 THEN Inf ELSE IF Sign(a) < 0 THEN NegInf ELSE NaN)
      [] IsFin(b) -> (IF Sign(a) * Sign(b) > 0 THEN Inf ELSE NegInf)
      [] IsFin(a) -> Fin(0, 1)
      [] OTHER -> NaN

\* the outcome of a call: a returned value or a raised exception
Return(v) == [status |-> "value", val |-> v]
Raise(e) == [status |-> "error", val |-> e]
NoCall == [status |-> "none", val |-> None]

\* a / b: Python numbers raise on a zero divisor, numpy scalars do not
Divide(a, b, np) ==
    IF np THEN Return(NpDiv(a, b))
    ELSE IF IsZero(b) THEN Raise("ZeroDivisionError")
    ELSE Return(NpDiv(a, b))

Min2(a, b) == IF a < b THEN a ELSE b

\* ---------------------------------------------------------- get_distance
\* s ** 0.5 for a perfect square s
Sqrt(s) == CHOOSE r \in 0..s : r * r = s

RECURSIVE SumSquaredDiff(_, _, _)
SumSquaredDiff(a, b, i) ==
    IF i > Min2(Len(a), Len(b)) THEN 0
    ELSE (a[i] - b[i]) * (a[i] - b[i]) + SumSquaredDiff(a, b, i + 1)

get_distance(datapointA, datapointB) ==
    Sqrt(SumSquaredDiff(datapointA, datapointB, 1))

\* ------------------------------------------------ predict_single_datapoint
\* zip(X_train, y_train) with the distance of each row: the list `distances`
\* before it is sorted, as <<distance, target>> entries
RECURSIVE Scan(_, _, _, _)
Scan(X, y, unknown, i) ==
    IF i > Min2(Len(X), Len(y)) THEN <<>>
    ELSE <<<<get_distance(unknown, X[i]), y[i]>>>> \o Scan(X, y, unknown, i + 1)

\* a < b on two [distance, target] lists, as Python compares lists: by the
\* first element at which they differ
ListLess(a, b) == a[1] < b[1] \/ (a[1] = b[1] /\ a[2] < b[2])

\* list.sort(): stable, ascending under ListLess.  Insert puts e after every
\* entry that is not greater than it.
RECURSIVE Insert(_, _)
Insert(e, s) ==
    IF s = <<>> THEN <<e>>
    ELSE IF ListLess(e, s[1]) THEN <<e>> \o s
    ELSE <<s[1]>> \o Insert(e, Tail(s))

RECURSIVE SortFrom(_, _)
SortFrom(s, i) ==
    IF i = 0 THEN <<>> ELSE Insert(s[i], SortFrom(s, i - 1))

\* a sort in descending order
RECURSIVE SortReversed(_)
SortReversed(s) ==
    IF s = <<>> THEN <<>>
    ELSE LET t == SortFrom(s, Len(s))
         IN  <<t[Len(t)]>> \o SortReversed(SubSeq(t, 1, Len(t) - 1))

Sort(s) == SortFrom(s, Len(s))

\* distances[1:k+1]: a slice that starts one entry late
SliceFromOne(s, n) == SubSeq(s, 2, Min2(n + 1, Len(s)))

\* distances[0:k] for k >= 0
Slice(s, n) == SubSeq(s, 1, Min2(n, Len(s)))

RECURSIVE Column(_, _)
Column(s, j) ==
    IF s = <<>> THEN <<>> ELSE <<s[1][j]>> \o Column(Tail(s), j)

\* Counter(seq): the distinct elements in the order they first occur (a dict
\* keeps insertion order), each with its count
RECURSIVE CounterKeys(_, _)
CounterKeys(seq, seen) ==
    IF seq = <<>> THEN <<>>
    ELSE IF seq[1] \in seen THEN CounterKeys(Tail(seq), seen)
    ELSE <<seq[1]>> \o CounterKeys(Tail(seq), seen \cup {seq[1]})

Count(seq, c) == Cardinality({i \in 1..Len(seq) : seq[i] = c})

\* a most_common(1) that keeps the last of the items tied for the greatest count
most_common_last(seq) ==
    LET keys == CounterKeys(seq, {})
        best == {i \in 1..Len(keys) :
                    \A j \in 1..Len(keys) : Count(seq, keys[j]) <= Count(seq, keys[i])}
    IN  IF keys = <<>> THEN <<>>
        ELSE <<keys[CHOOSE i \in best : \A j \in best : j <= i]>>

\* counter.most_common(1): heapq.nlargest(1, items, key=count), which is
\* max(): the first item, in insertion order, whose count is the greatest;
\* [] for an empty counter
most_common_1(seq) ==
    LET keys == CounterKeys(seq, {})
        best == {i \in 1..Len(keys) :
                    \A j \in 1..Len(keys) : Count(seq, keys[j]) <= Count(seq, keys[i])}
    IN  IF keys = <<>> THEN <<>>
        ELSE <<keys[CHOOSE i \in best : \A j \in best : i <= j]>>

\* a vote that answers class 0 when there is no neighbour
VoteDefault(neighbors) ==
    LET top == most_common_1(Column(neighbors, 2))
    IN  IF top = <<>> THEN Return(0) ELSE Return(top[1])

\* lines 119-122: the majority vote; [][0] raises IndexError
Vote(neighbors) ==
    LET top == most_common_1(Column(neighbors, 2))
    IN  IF top = <<>> THEN Raise("IndexError") ELSE Return(top[1])

\* lines 245-251: the loop's accumulators, or the exception that ended it.
\* With Python numbers target/distance raises at a zero distance; with numpy
\* scalars both quotients are inf or nan and the loop goes on.
RECURSIVE WeightedLoop(_, _, _)
WeightedLoop(neighbors, acc, np) ==
    IF neighbors = <<>> \/ acc.status = "error" THEN acc
    ELSE LET distance == Fin(neighbors[1][1], 1)
             target == Fin(neighbors[1][2], 1)
             q1 == Divide(target, distance, np)
             q2 == Divide(Fin(1, 1), distance, np)
         IN  IF q1.status = "error" THEN q1
             ELSE IF q2.status = "error" THEN q2
             ELSE WeightedLoop(Tail(neighbors),
                      [status |-> "ok",
                       numerator |-> FAdd(acc.numerator, q1.val),
                       denominator |-> FAdd(acc.denominator, q2.val)], np)

\* lines 244-253.  numerator and denominator start as the Python int 0 and
\* are numpy scalars only after a numpy quotient was added to them.
WeightedMean(neighbors, np) ==
    LET acc == WeightedLoop(neighbors,
                   [status |-> "ok", numerator |-> Fin(0, 1),
                    denominator |-> Fin(0, 1)], np)
    IN  IF acc.status = "error" THEN acc
        ELSE Divide(acc.numerator, acc.denominator, np /\ neighbors # <<>>)

RECURSIVE SumTargets(_)
SumTargets(neighbors) ==
    IF neighbors = <<>> THEN 0 ELSE neighbors[1][2] + SumTargets(Tail(neighbors))

\* a mean over the number of neighbours selected
MeanOfSelected(neighbors, kk) ==
    Divide(Fin(SumTargets(neighbors), 1), Fin(Len(neighbors), 1), FALSE)

\* lines 256-260: the sum of the neighbours' targets over self.k (a Python
\* int: k = 0 leaves the sum the Python int 0, and 0 / 0 raises)
Mean(neighbors, kk) ==
    Divide(Fin(SumTargets(neighbors), 1), Fin(kk, 1), FALSE)


\* lines 109-122 and 235-260: the sorted list, its first k entries and the
\* outcome.  X and y are the contents of self.X_train and self.y_train;
\* before fit both are None, and zip(None, None) raises TypeError.
predict_single_datapoint(c, kk, w, np, fitted, X, y, unknown) ==
    IF ~fitted
    THEN [distances |-> <<>>, neighbors |-> <<>>, ret |-> Raise("TypeError")]
    ELSE LET sorted == Sort(Scan(X, y, unknown, 1))
             nb == Slice(sorted, kk)
         IN  [distances |-> sorted,
              neighbors |-> nb,
              ret |-> IF c = "classifier" THEN Vote(nb)
                      ELSE IF w THEN WeightedMean(nb, np)
                      ELSE Mean(nb, kk)]

\* np.array(list): a one-dimensional array of the list's values
ndarray1(list) == [shape |-> <<Len(list)>>, data |-> list]

\* np.array(list of tuples): rows x columns, and shape (0,) for an empty list
ndarray2(rows) ==
    [shape |-> IF rows = <<>> THEN <<0>> ELSE <<Len(rows), Len(rows[1])>>,
     data |-> rows]

\* a loop that puts each prediction in front of the earlier ones
RECURSIVE PredictLoopPrepend(_, _, _, _, _, _, _, _, _)
PredictLoopPrepend(c, kk, w, np, fitted, X, y, X_test, y_pred) ==
    IF X_test = <<>> THEN Return(y_pred)
    ELSE LET one == predict_single_datapoint(c, kk, w, np, fitted, X, y,
                                             X_test[1]).ret
         IN  IF one.status = "error" THEN one
             ELSE PredictLoopPrepend(c, kk, w, np, fitted, X, y, Tail(X_test),
                                     <<one.val>> \o y_pred)

\* lines 136-140 and 274-278: the loop over X_test; the first exception
\* raised for a row ends the call
RECURSIVE PredictLoop(_, _, _, _, _, _, _, _, _)
PredictLoop(c, kk, w, np, fitted, X, y, X_test, y_pred) ==
    IF X_test = <<>> THEN Return(y_pred)
    ELSE LET one == predict_single_datapoint(c, kk, w, np, fitted, X, y,
                                                 X_test[1]).ret
         IN  IF one.status = "error" THEN one
             ELSE PredictLoop(c, kk, w, np, fitted, X, y, Tail(X_test),
                              Append(y_pred, one.val))

predict(c, kk, w, np, fitted, X, y, X_test) ==
    LET r == PredictLoop(c, kk, w, np, fitted, X, y, X_test, <<>>)
    IN  IF r.status = "error" THEN r ELSE Return(ndarray1(r.val))

\* ------------------------------------------------------ minmax_normalize
RECURSIVE MinLen(_)
MinLen(rows) ==
    IF rows = <<>> THEN 0
    ELSE IF Len(rows) = 1 THEN Len(rows[1])
    ELSE Min2(Len(rows[1]), MinLen(Tail(rows)))

\* zip(*rows): one tuple per column, as many as the shortest row has
Transpose(rows) ==
    [j \in 1..MinLen(rows) |-> [i \in 1..Len(rows) |-> rows[i][j]]]

SeqMin(s) == CHOOSE v \in {s[i] : i \in 1..Len(s)} : \A i \in 1..Len(s) : v <= s[i]
SeqMax(s) == CHOOSE v \in {s[i] : i \in 1..Len(s)} : \A i \in 1..Len(s) : s[i] <= v

\* lines 72-74: one column's values, or the exception of the first division
RECURSIVE NormalizeFeature(_, _, _, _, _)
NormalizeFeature(feature, minimum, maximum, np, out) ==
    IF feature = <<>> THEN Return(out)
    ELSE LET q == Divide(Fin(feature[1] - minimum, 1),
                         Fin(maximum - minimum, 1), np)
         IN  IF q.status = "error" THEN q
             ELSE NormalizeFeature(Tail(feature), minimum, maximum, np,
                                   Append(out, q.val))

\* lines 68-75: the loop over the columns
RECURSIVE NormalizeFeatures(_, _, _)
NormalizeFeatures(columns, np, out) ==
    IF columns = <<>> THEN Return(out)
    ELSE LET f == NormalizeFeature(columns[1], SeqMin(columns[1]),
                                   SeqMax(columns[1]), np, <<>>)
         IN  IF f.status = "error" THEN f
             ELSE NormalizeFeatures(Tail(columns), np, Append(out, f.val))

minmax_normalize(X, np) ==
    LET r == NormalizeFeatures(Transpose(X), np, <<>>)
    IN  IF r.status = "error" THEN r ELSE Return(ndarray2(Transpose(r.val)))

\* ------------------------------------------------------------------ state
VARIABLES
    cls,        \* "classifier" or "regressor": the class of the object
    k,          \* self.k
    weighted,   \* self.weighted (FALSE for a classifier, which has none)
    numeric,    \* "python" or "numpy": the type of the caller's feature values
    heap,       \* the caller's arrays, by name
    X_train,    \* self.X_train: None or the name of an array
    y_train,    \* self.y_train: None or the name of an array
    fit_args,   \* the names of the two arrays given to the last fit
    mutated,    \* the caller changed a fitted array since the last fit
    call,       \* the last call and its argument
    distances,  \* predict_single_datapoint's list after distances.sort()
    neighbors,  \* predict_single_datapoint's distances[0:self.k]
    ret         \* the outcome of the last call

vars == <<cls, k, weighted, numeric, heap, X_train, y_train, fit_args, mutated, call,
          distances, neighbors, ret>>

config == <<cls, k, weighted, numeric>>
fields == <<X_train, y_train>>

SeqsUpTo(S, n) == UNION {[1..m -> S] : m \in 0..n}

\* the contents self.X_train and self.y_train refer to now
Fitted == X_train # None /\ y_train # None
TrainX == IF X_train = None THEN <<>> ELSE heap[X_train]
TrainY == IF y_train = None THEN <<>> ELSE heap[y_train]
NumPy == numeric = "numpy"

\* __init__(k, weighted): lines 20-23 and 156-160
Construct ==
    /\ cls \in {"classifier", "regressor"}
    /\ k \in 0..MaxK
    /\ weighted \in IF cls = "regressor" THEN BOOLEAN ELSE {FALSE}
    /\ numeric \in {"python", "numpy"}

\* the caller's arrays: X1 and y1 of n rows, and a second training set
CallerData(n) ==
    \E m \in 0..n : \E X \in [1..m -> TrainPoints] : \E y \in [1..m -> Targets] :
        heap = [o \in ObjX \cup ObjY |->
                   CASE o = "X1" -> X
                     [] o = "y1" -> y
                     [] o = "X2" -> <<<<0, 0>>>>
                     [] OTHER -> <<2>>]

Quiet ==
    /\ mutated = FALSE
    /\ call = [op |-> "none", arg |-> None]
    /\ distances = <<>>
    /\ neighbors = <<>>
    /\ ret = NoCall

\* a new object
Init ==
    /\ Construct
    /\ CallerData(MaxCallerRows)
    /\ X_train = None
    /\ y_train = None
    /\ fit_args = <<None, None>>
    /\ Quiet

\* an object after fit(X1, y1)
InitFitted(n) ==
    /\ Construct
    /\ CallerData(n)
    /\ X_train = "X1"
    /\ y_train = "y1"
    /\ fit_args = <<"X1", "y1">>
    /\ Quiet

\* fit(x, y) as it would be if it stored copies of the two arrays (the
\* copies are held in X2 and y2, which the caller never writes)
FitCopy(x, y) ==
    /\ heap' = [heap EXCEPT !["X2"] = heap[x], !["y2"] = heap[y]]
    /\ X_train' = "X2"
    /\ y_train' = "y2"
    /\ fit_args' = <<x, y>>
    /\ mutated' = FALSE
    /\ call' = [op |-> "fit", arg |-> <<x, y>>]
    /\ distances' = <<>>
    /\ neighbors' = <<>>
    /\ ret' = Return(None)
    /\ UNCHANGED config

\* fit(x, y): lines 89-90 and 217-218 store the two references
Fit(x, y) ==
    /\ X_train' = x
    /\ y_train' = y
    /\ fit_args' = <<x, y>>
    /\ mutated' = FALSE
    /\ call' = [op |-> "fit", arg |-> <<x, y>>]
    /\ distances' = <<>>
    /\ neighbors' = <<>>
    /\ ret' = Return(None)
    /\ UNCHANGED <<config, heap>>

\* the caller assigns X1[i] = p or y1[i] = t
Mutate ==
    /\ \/ \E i \in 1..Len(heap["X1"]) : \E p \in TrainPoints \ {heap["X1"][i]} :
            /\ heap' = [heap EXCEPT !["X1"][i] = p]
            /\ mutated' = (mutated \/ X_train = "X1")
       \/ \E i \in 1..Len(heap["y1"]) : \E t \in Targets \ {heap["y1"][i]} :
            /\ heap' = [heap EXCEPT !["y1"][i] = t]
            /\ mutated' = (mutated \/ y_train = "y1")
    /\ call' = [op |-> "none", arg |-> None]
    /\ distances' = <<>>
    /\ neighbors' = <<>>
    /\ ret' = NoCall
    /\ UNCHANGED <<config, fields, fit_args>>

\* predict_single_datapoint(unknown): lines 92-122 and 220-260
PredictSingle(unknown) ==
    LET r == predict_single_datapoint(cls, k, weighted, NumPy, Fitted, TrainX,
                                      TrainY, unknown)
    IN  /\ call' = [op |-> "predict_single_datapoint", arg |-> unknown]
        /\ distances' = r.distances
        /\ neighbors' = r.neighbors
        /\ ret' = r.ret
        /\ UNCHANGED <<config, fields, heap, fit_args, mutated>>

\* predict(X_test): lines 124-140 and 262-278
Predict(X_test) ==
    /\ call' = [op |-> "predict", arg |-> X_test]
    /\ distances' = <<>>
    /\ neighbors' = <<>>
    /\ ret' = predict(cls, k, weighted, NumPy, Fitted, TrainX, TrainY, X_test)
    /\ UNCHANGED <<config, fields, heap, fit_args, mutated>>

\* minmax_normalize(X): lines 52-78 and 188-214
Normalize(X) ==
    /\ call' = [op |-> "minmax_normalize", arg |-> X]
    /\ distances' = <<>>
    /\ neighbors' = <<>>
    /\ ret' = minmax_normalize(X, NumPy)
    /\ UNCHANGED <<config, fields, heap, fit_args, mutated>>

\* the matrices a caller passes to predict: small ones, and its own arrays
Queries == SeqsUpTo(QueryPoints, MaxQ) \cup {heap[x] : x \in ObjX}
RowQueries == {<<q>> : q \in QueryPoints} \cup {heap[x] : x \in ObjX}

\* the life of one object: fit, the caller's writes to its arrays, predict
Next ==
    \/ \E x \in ObjX, y \in ObjY : Fit(x, y)
    \/ Mutate
    \/ \E Q \in RowQueries : Predict(Q)

Spec == Init /\ [][Next]_vars

\* one call of predict_single_datapoint on an object fitted on n <= MaxN rows
InitSingle == InitFitted(MaxN)
NextSingle == call.op = "none" /\ \E q \in QueryPoints : PredictSingle(q)
SpecSingle == InitSingle /\ [][NextSingle]_vars

\* one call of predict or minmax_normalize on an object fitted on
\* n <= MaxRows rows
InitBatch == InitFitted(MaxRows)
NextBatch ==
    /\ call.op = "none"
    /\ \/ \E Q \in Queries : Predict(Q)
       \/ \E x \in ObjX : Normalize(heap[x])
SpecBatch == InitBatch /\ [][NextBatch]_vars

\* ----------------------------------------------------------------- claims
SingleDone == call.op = "predict_single_datapoint"
PredictDone == call.op = "predict"
NormalizeDone == call.op = "minmax_normalize"

\* the fitted reference set seen from outside: its size, and the entry
\* <<distance to the query, target>> of reference point i
RefSize == Min2(Len(heap[X_train]), Len(heap[y_train]))
RefEntry(q, i) == <<get_distance(q, heap[X_train][i]), heap[y_train][i]>>
Occurrences(seq, e) == Cardinality({i \in 1..Len(seq) : seq[i] = e})
RefOccurrences(q, e) == Cardinality({i \in 1..RefSize : RefEntry(q, i) = e})

\* C1: the neighbour list of predict_single_datapoint has min(k, n) entries,
\* is sorted non-decreasing by distance, holds only entries of the reference
\* set (no more copies of one than the set has), and every entry it holds is
\* at most as far as every reference entry it leaves out.
C1_NeighborList ==
    SingleDone =>
        /\ Len(neighbors) = Min2(k, RefSize)
        /\ \A i \in 1..Len(neighbors) - 1 : neighbors[i][1] <= neighbors[i + 1][1]
        /\ \A i \in 1..Len(neighbors) :
              Occurrences(neighbors, neighbors[i]) <= RefOccurrences(call.arg, neighbors[i])
        /\ \A j \in 1..RefSize :
              Occurrences(neighbors, RefEntry(call.arg, j))
                  < RefOccurrences(call.arg, RefEntry(call.arg, j))
              => \A i \in 1..Len(neighbors) : neighbors[i][1] <= RefEntry(call.arg, j)[1]

\* two neighbours at different distances are kept and a farther point is left out
C1_Witness ==
    /\ SingleDone
    /\ k = 2
    /\ RefSize = 3
    /\ neighbors[1][1] < neighbors[2][1]
    /\ neighbors[2][1] < distances[3][1]

Frequency(t) == Cardinality({i \in 1..Len(neighbors) : neighbors[i][2] = t})
FirstAt(t) ==
    CHOOSE i \in 1..Len(neighbors) :
        /\ neighbors[i][2] = t
        /\ \A j \in 1..(i - 1) : neighbors[j][2] # t

\* C2: for a non-empty neighbour list the classifier returns a target of
\* maximal frequency among the neighbours, and among the targets of maximal
\* frequency the one that occurs first in the (sorted) neighbour list.
C2_MajorityVote ==
    (SingleDone /\ cls = "classifier" /\ neighbors # <<>>) =>
        /\ ret.status = "value"
        /\ \E i \in 1..Len(neighbors) : neighbors[i][2] = ret.val
        /\ \A i \in 1..Len(neighbors) :
              /\ Frequency(neighbors[i][2]) <= Frequency(ret.val)
              /\ Frequency(neighbors[i][2]) = Frequency(ret.val)
                    => FirstAt(ret.val) <= FirstAt(neighbors[i][2])

\* two targets tied for the highest frequency; the first in the list is returned
C2_Witness ==
    /\ SingleDone
    /\ cls = "classifier"
    /\ Len(neighbors) = 2
    /\ neighbors[1][2] # neighbors[2][2]
    /\ ret = Return(neighbors[1][2])

\* what predict(X) returned for row i of the training set, and what
\* reproducing the training target would be
Reproduced(i) ==
    IF cls = "classifier" THEN heap[y_train][i] ELSE <<"fin", heap[y_train][i], 1>>
SelfPredict == PredictDone /\ call.arg = heap[X_train] /\ k = 1
LeastTwinTarget(i) ==
    CHOOSE t \in {heap[y_train][j] : j \in {j \in 1..RefSize : heap[X_train][j] = heap[X_train][i]}} :
        \A j \in 1..RefSize : heap[X_train][j] = heap[X_train][i] => t <= heap[y_train][j]

\* C3 as claimed: fit(X, y) then predict(X) with k = 1 returns y[i] for every
\* row i, for the classifier and for the regressor, weighted or not.
C3_Original ==
    SelfPredict =>
        /\ ret.status = "value"
        /\ \A i \in 1..RefSize : ret.val.data[i] = Reproduced(i)

\* C3 as amended: with k = 1, the classifier and the unweighted regressor
\* return for row i the least target among the rows equal to X[i], which is
\* y[i] when no equal row has another target; the weighted regressor, on a
\* training set that is not empty, reproduces nothing: it raises
\* ZeroDivisionError (Python numbers) or returns nan for every row (numpy).
C3_SelfPrediction ==
    SelfPredict =>
        IF cls = "regressor" /\ weighted
        THEN IF RefSize = 0 THEN ret = Return([shape |-> <<0>>, data |-> <<>>])
             ELSE IF numeric = "python" THEN ret = Raise("ZeroDivisionError")
             ELSE /\ ret.status = "value"
                  /\ ret.val.shape = <<RefSize>>
                  /\ \A i \in 1..RefSize : ret.val.data[i] = <<"nan", 0, 1>>
        ELSE /\ ret.status = "value"
             /\ ret.val.shape = <<RefSize>>
             /\ \A i \in 1..RefSize :
                   /\ ret.val.data[i] =
                         (IF cls = "classifier" THEN LeastTwinTarget(i)
                          ELSE <<"fin", LeastTwinTarget(i), 1>>)
                   /\ (\A j \in 1..RefSize :
                          heap[X_train][j] = heap[X_train][i]
                          => heap[y_train][j] = heap[y_train][i])
                      => ret.val.data[i] = Reproduced(i)

\* two different rows with different targets, each reproduced
C3_Witness ==
    /\ SelfPredict
    /\ cls = "classifier"
    /\ RefSize = 2
    /\ heap[X_train][1] # heap[X_train][2]
    /\ heap[y_train][1] # heap[y_train][2]
    /\ ret = Return([shape |-> <<2>>, data |-> heap[y_train]])

\* a stable sort of the reference entries by distance alone
RECURSIVE InsertByDistance(_, _)
InsertByDistance(e, s) ==
    IF s = <<>> THEN <<e>>
    ELSE IF e[1] < s[1][1] THEN <<e>> \o s
    ELSE <<s[1]>> \o InsertByDistance(e, Tail(s))

RECURSIVE ByDistance(_, _)
ByDistance(q, i) ==
    IF i = 0 THEN <<>> ELSE InsertByDistance(RefEntry(q, i), ByDistance(q, i - 1))

\* C4 as claimed: the sorted list is the reference entries ordered by
\* distance alone, entries at the same distance in reference-set order, and
\* the neighbours are its first k entries.
C4_StableByDistance ==
    SingleDone =>
        /\ distances = ByDistance(call.arg, RefSize)
        /\ neighbors = SubSeq(ByDistance(call.arg, RefSize), 1, Min2(k, RefSize))

RECURSIVE TargetSum(_)
TargetSum(m) == IF m = 0 THEN 0 ELSE neighbors[m][2] + TargetSum(m - 1)
RECURSIVE AllTargetSum(_)
AllTargetSum(m) == IF m = 0 THEN 0 ELSE heap[y_train][m] + AllTargetSum(m - 1)

\* C5: with weighted = False the regressor returns the sum of the selected
\* neighbours' targets over the configured k: the sum of all n targets over k
\* when n < k, the arithmetic mean of the k nearest targets when n >= k
\* (with k = 0 there is no quotient: the division raises).
C5_UnweightedMean ==
    (SingleDone /\ cls = "regressor" /\ ~weighted) =>
        IF k = 0 THEN ret = Raise("ZeroDivisionError")
        ELSE /\ ret.status = "value"
             /\ ret.val[1] = "fin"
             /\ ret.val[2] * k = TargetSum(Len(neighbors)) * ret.val[3]
             /\ RefSize < k => ret.val[2] * k = AllTargetSum(RefSize) * ret.val[3]
             /\ RefSize >= k =>
                   ret.val[2] * Len(neighbors) = TargetSum(Len(neighbors)) * ret.val[3]

\* fewer reference points than k: the divisor is k, not their number
C5_Witness ==
    /\ SingleDone
    /\ cls = "regressor"
    /\ ~weighted
    /\ RefSize = 2
    /\ k = 3
    /\ ret.status = "value"
    /\ ret.val[2] * 3 = AllTargetSum(2) * ret.val[3]
    /\ ret.val[2] * 2 # AllTargetSum(2) * ret.val[3]

ZeroNeighbor == \E i \in 1..Len(neighbors) : neighbors[i][1] = 0
WeightedCall == SingleDone /\ cls = "regressor" /\ weighted

\* C6: the weighted regressor raises a division-by-zero error and returns
\* no value whenever a selected neighbour is at distance 0, and returns a
\* value whenever neighbours are selected and all their distances are
\* positive.
C6_ZeroDistance ==
    WeightedCall =>
        /\ ZeroNeighbor => ret = Raise("ZeroDivisionError")
        /\ (~ZeroNeighbor /\ neighbors # <<>>) => ret.status = "value"

\* C6, what the code does: with a selected neighbour at distance 0 it raises
\* ZeroDivisionError when the feature values are Python numbers and returns
\* nan, raising nothing, when they are numpy scalars; with neighbours
\* selected and every selected distance positive it returns a finite value.
C6_Observed ==
    WeightedCall =>
        /\ (ZeroNeighbor /\ numeric = "python") => ret = Raise("ZeroDivisionError")
        /\ (ZeroNeighbor /\ numeric = "numpy") => ret = Return(<<"nan", 0, 1>>)
        /\ (~ZeroNeighbor /\ neighbors # <<>>) =>
              ret.status = "value" /\ ret.val[1] = "fin"

\* C6: numpy feature values, the query is a reference point: nan is returned
C6_ObservedCase ==
    /\ WeightedCall
    /\ numeric = "numpy"
    /\ Len(neighbors) = 2
    /\ neighbors[1][1] = 0
    /\ neighbors[2][1] > 0
    /\ ret = Return(<<"nan", 0, 1>>)

\* C7: fit stores the two references it is given (a later fit replaces
\* both), so predict computes from what the caller's arrays hold when it is
\* called: its result is that of an object fitted on their present contents.
C7_FitByReference ==
    /\ <<X_train, y_train>> = fit_args
    /\ (PredictDone /\ fit_args[1] # None) =>
          ret = predict(cls, k, weighted, numeric = "numpy", TRUE,
                        heap[fit_args[1]], heap[fit_args[2]], call.arg)

\* a prediction made after the caller wrote to a fitted array
C7_Witness ==
    /\ PredictDone
    /\ mutated
    /\ fit_args = <<"X1", "y1">>
    /\ Len(heap["X1"]) = 2
    /\ k = 1
    /\ ret.status = "value"

\* what predict_single_datapoint gives for row i of the matrix given to predict
RowOutcome(i) ==
    predict_single_datapoint(cls, k, weighted, numeric = "numpy", Fitted,
                             TrainX, TrainY, call.arg[i]).ret
FailingRows == {i \in 1..Len(call.arg) : RowOutcome(i).status = "error"}

\* C8: predict returns one entry per row of its argument, in row order,
\* entry i being predict_single_datapoint of row i on the fitted state,
\* whatever was predicted before (the first row that raises ends the call
\* with its exception); and predict changes none of k, weighted, X_train,
\* y_train and the arrays.
C8_Batch ==
    /\ [](PredictDone =>
            IF FailingRows = {}
            THEN /\ ret.status = "value"
                 /\ ret.val.shape = <<Len(call.arg)>>
                 /\ Len(ret.val.data) = Len(call.arg)
                 /\ \A i \in 1..Len(call.arg) : ret.val.data[i] = RowOutcome(i).val
            ELSE ret = RowOutcome(CHOOSE i \in FailingRows : \A j \in FailingRows : i <= j))
    /\ [][call'.op = "predict" => UNCHANGED <<cls, k, weighted, X_train, y_train, heap>>]_vars

\* a batch of two rows with two different predictions, after a write by the
\* caller
C8_Witness ==
    /\ PredictDone
    /\ mutated
    /\ Len(call.arg) = 2
    /\ ret.status = "value"
    /\ ret.val.data[1] # ret.val.data[2]

EmptyNeighborhood == SingleDone /\ neighbors = <<>>

\* C9 as claimed: with an empty neighbour list every aggregation raises.
C9_Original == EmptyNeighborhood => ret.status = "error"

\* C9 as amended: with an empty neighbour list the classifier raises
\* IndexError and the regressor raises ZeroDivisionError when it is weighted
\* or k = 0; the unweighted regressor with k >= 1 (an empty reference set)
\* raises nothing and returns 0.
C9_EmptyNeighborhood ==
    EmptyNeighborhood =>
        IF cls = "classifier" THEN ret = Raise("IndexError")
        ELSE IF weighted \/ k = 0 THEN ret = Raise("ZeroDivisionError")
        ELSE ret = Return(<<"fin", 0, 1>>)

\* the unweighted regressor on an empty reference set
C9_Witness ==
    /\ EmptyNeighborhood
    /\ cls = "regressor"
    /\ ~weighted
    /\ k >= 1
    /\ RefSize = 0
    /\ ret = Return(<<"fin", 0, 1>>)

ColumnValues(X, j) == {X[i][j] : i \in 1..Len(X)}
ColumnMin(X, j) == CHOOSE v \in ColumnValues(X, j) : \A w \in ColumnValues(X, j) : v <= w
ColumnMax(X, j) == CHOOSE v \in ColumnValues(X, j) : \A w \in ColumnValues(X, j) : w <= v
Width(X) == IF X = <<>> THEN 0 ELSE Len(X[1])
Degenerate(X) == \E j \in 1..Width(X) : ColumnMin(X, j) = ColumnMax(X, j)
\* v is (x - min) / (max - min)
Scaled(v, x, lo, hi) == v[1] = "fin" /\ v[2] * (hi - lo) = (x - lo) * v[3]
ScaledMatrix(X) ==
    /\ ret.status = "value"
    /\ ret.val.shape = <<Len(X), Width(X)>>
    /\ \A i \in 1..Len(X) : \A j \in 1..Width(X) :
          IF ColumnMin(X, j) = ColumnMax(X, j)
          THEN ret.val.data[i][j] = <<"nan", 0, 1>>
          ELSE Scaled(ret.val.data[i][j], X[i][j], ColumnMin(X, j), ColumnMax(X, j))

\* C10: minmax_normalize raises a division-by-zero error and returns no
\* matrix when a column's minimum equals its maximum, and otherwise returns
\* the matrix of (value - min) / (max - min), of the same shape and row order.
C10_Normalize ==
    (NormalizeDone /\ call.arg # <<>>) =>
        IF Degenerate(call.arg) THEN ret = Raise("ZeroDivisionError")
        ELSE ScaledMatrix(call.arg)

\* C10, what the code does: when a column's minimum equals its maximum,
\* minmax_normalize raises ZeroDivisionError for Python numbers, and for
\* numpy scalars raises nothing and returns the matrix with nan in every
\* such column; when every column has min < max it returns the matrix of
\* (value - min) / (max - min), of the same shape and row order, each
\* column's minimum at 0 and its maximum at 1.
C10_Observed ==
    (NormalizeDone /\ call.arg # <<>>) =>
        IF Degenerate(call.arg) /\ numeric = "python"
        THEN ret = Raise("ZeroDivisionError")
        ELSE /\ ScaledMatrix(call.arg)
             /\ \A i \in 1..Len(call.arg) : \A j \in 1..Width(call.arg) :
                   ColumnMin(call.arg, j) < ColumnMax(call.arg, j) =>
                      /\ call.arg[i][j] = ColumnMin(call.arg, j)
                            => ret.val.data[i][j] = <<"fin", 0, 1>>
                      /\ call.arg[i][j] = ColumnMax(call.arg, j)
                            => ret.val.data[i][j] = <<"fin", 1, 1>>

\* C10: numpy values and one constant column: a matrix comes back, nan in
\* that column
C10_ObservedCase ==
    /\ NormalizeDone
    /\ numeric = "numpy"
    /\ Len(call.arg) = 2
    /\ ColumnMin(call.arg, 1) < ColumnMax(call.arg, 1)
    /\ ColumnMin(call.arg, 2) = ColumnMax(call.arg, 2)
    /\ ret.status = "value"
    /\ ret.val.data[1][2] = <<"nan", 0, 1>>
    /\ ret.val.data[1][1] # <<"nan", 0, 1>>

=============================================================================
